---- MODULE Spec2Model ----
(***************************************************************************)
(* A model of the storage core of zarr-python: the obstore-backed          *)
(* ObjectStore adapter (src/zarr/storage/object_store.py), the path and    *)
(* byte-range helpers (src/zarr/storage/_utils.py) and the zstd codec      *)
(* (src/zarr/v3/codecs/zstd.py).                                           *)
(*                                                                         *)
(* Strings that the code inspects character by character (keys, prefixes,  *)
(* paths) are sequences of one-character strings.  Buffers are sequences   *)
(* of byte values.  Positions in a batch are 1-based here where Python's   *)
(* are 0-based; byte offsets keep Python's 0-based values.                 *)
(***************************************************************************)
EXTENDS Integers, Sequences, FiniteSets, TLC

VARIABLES
    objects,    \* the backend's contents: a function from the stored keys to their bytes
    read_only,  \* Store.read_only, fixed at construction
    op,         \* the name of the operation that completed last
    args,       \* the inputs of that operation
    ret,        \* its outcome: a returned value or a raised exception
    tasks,      \* the tasks asyncio.gather runs for a get_partial_values call
    slots       \* the list `buffers` of that call

vars == <<objects, read_only, op, args, ret, tasks, slots>>

(***************************************************************************)
(* Bounds of the model.                                                    *)
(***************************************************************************)
MaxOff == 3      \* byte offsets, ends and suffix lengths of a get range from 0..MaxOff
MaxBatch == 2    \* the longest key_ranges list given to get_partial_values
MaxLen == 4      \* the longest path given to normalize_path
MaxData == 4     \* the longest buffer given to _normalize_byte_range_index

(***************************************************************************)
(* Keys, values and byte ranges.                                           *)
(***************************************************************************)
KeyAB == <<"a", "/", "b">>
KeyACD == <<"a", "/", "c", "/", "d">>
KeyAE == <<"a", "/", "e">>
KeyAb == <<"a", "b">>

Keys == {KeyAB, KeyACD, KeyAE, KeyAb}

V1 == <<10, 20, 30>>
V2 == <<40, 50>>

Values == {V1, V2}

\* The prefixes given to the listing operations: normalized keys and the root.
Prefixes == {<<>>, <<"a">>, <<"a", "/", "c">>, KeyAb, <<"b">>}

\* ByteRequest | None, and a value that is none of the recognised classes.
Full == [type |-> "None"]
RangeByteRequest(s, e) == [type |-> "RangeByteRequest", start |-> s, end |-> e]
OffsetByteRequest(o) == [type |-> "OffsetByteRequest", offset |-> o]
SuffixByteRequest(n) == [type |-> "SuffixByteRequest", suffix |-> n]
Unrecognized == [type |-> "object"]

ByteRanges ==
    {Full, Unrecognized}
    \cup UNION {{RangeByteRequest(s, e) : e \in (s + 1)..MaxOff} : s \in 0..MaxOff}
    \cup {OffsetByteRequest(o) : o \in 0..MaxOff}
    \cup {SuffixByteRequest(n) : n \in 1..MaxOff}

\* The ranges of the requests of a batch.
BatchRanges ==
    {Full, RangeByteRequest(0, 2), RangeByteRequest(2, 3), OffsetByteRequest(1), SuffixByteRequest(2)}

BatchKeys == {KeyAB, KeyAb}

(***************************************************************************)
(* Outcomes of a call.                                                     *)
(***************************************************************************)
Buffer(b) == [kind |-> "Buffer", bytes |-> b]
None == [kind |-> "None"]
Raise(e) == [kind |-> "raise", exc |-> e]
Bool(b) == [kind |-> "bool", val |-> b]
Yielded(s) == [kind |-> "yield", items |-> s]
BufferList(l) == [kind |-> "list", items |-> l]

Min(a, b) == IF a < b THEN a ELSE b
Max(a, b) == IF a > b THEN a ELSE b

(***************************************************************************)
(* The obstore backend, as the adapter's call sites use it.  A call on a   *)
(* key that holds no object raises one of the backend's not-found signals  *)
(* (which one depends on the backend kind and on the shape of the key);    *)
(* any call may also fail with an error of another class, GenericError.    *)
(* `signal` is what the backend raises during the call, "none" when it     *)
(* answers.                                                                *)
(***************************************************************************)
NotFoundSignals == {"FileNotFoundError", "IsADirectoryError", "NotADirectoryError"}

Signals(store, key) ==
    IF key \in DOMAIN store THEN {"none", "GenericError"}
    ELSE NotFoundSignals \cup {"GenericError"}

\* The range options of a backend read: none, start= and end=, {"offset": o}, {"suffix": n}.
NoRange == [opt |-> "none"]
StartEnd(s, e) == [opt |-> "bounded", start |-> s, end |-> e]
OffsetRange(o) == [opt |-> "offset", offset |-> o]
SuffixRange(n) == [opt |-> "suffix", suffix |-> n]

\* The bytes of `data` a range selects; a start at or past the end is an error,
\* an end past the end is cut to it.
obs_range(data, range) ==
    CASE range.opt = "none" -> Buffer(data)
      [] range.opt = "bounded" ->
            IF range.start >= Len(data) THEN Raise("GenericError")
            ELSE Buffer(SubSeq(data, range.start + 1, Min(range.end, Len(data))))
      [] range.opt = "offset" ->
            IF range.offset >= Len(data) THEN Raise("GenericError")
            ELSE Buffer(SubSeq(data, range.offset + 1, Len(data)))
      [] range.opt = "suffix" ->
            Buffer(SubSeq(data, Max(Len(data) - range.suffix, 0) + 1, Len(data)))

\* obs.get_async(store, key[, options={"range": ...}]) and
\* obs.get_range_async(store, key, start=, end=)
obs_get_async(store, key, range, signal) ==
    IF signal # "none" THEN Raise(signal) ELSE obs_range(store[key], range)

\* obs.get_ranges_async(store, path=, starts=, ends=): one buffer per (start, end)
obs_get_ranges_async(store, path, starts, ends, signal) ==
    LET parts == [i \in 1..Len(starts) |-> obs_range(store[path], StartEnd(starts[i], ends[i]))]
    IN  IF signal # "none" THEN Raise(signal)
        ELSE IF \E i \in 1..Len(starts) : parts[i].kind = "raise" THEN Raise("GenericError")
        ELSE [kind |-> "buffers", items |-> [i \in 1..Len(starts) |-> parts[i].bytes]]

\* obs.head_async(store, key)
obs_head_async(store, key, signal) ==
    IF signal # "none" THEN Raise(signal) ELSE [kind |-> "ObjectMeta"]

\* obs.put_async(store, key, buf[, mode="create"]): the new contents, or a raise
obs_put_async(store, key, buf, mode, signal) ==
    IF signal # "none" THEN Raise(signal)
    ELSE IF mode = "create" /\ key \in DOMAIN store THEN Raise("AlreadyExistsError")
    ELSE [kind |-> "stored",
          store |-> [k \in DOMAIN store \cup {key} |-> IF k = key THEN buf ELSE store[k]]]

\* obs.delete_async(store, key): the new contents, or a raise
obs_delete_async(store, key, signal) ==
    IF signal # "none" THEN Raise(signal)
    ELSE [kind |-> "stored", store |-> [k \in DOMAIN store \ {key} |-> store[k]]]

\* What the backend may raise during a write; deleting a key that holds no object
\* is accepted by some backends and a FileNotFoundError on others.
PutSignals == {"none", "GenericError"}
DeleteSignals(store, key) ==
    IF key \in DOMAIN store THEN {"none", "GenericError"}
    ELSE {"none", "FileNotFoundError", "GenericError"}

\* s is p followed by "/" and at least one more character
UnderPrefix(p, s) ==
    /\ Len(s) > Len(p) + 1
    /\ SubSeq(s, 1, Len(p)) = p
    /\ s[Len(p) + 1] = "/"

\* obs.list(store[, prefix=prefix]): the stored paths under the prefix, matched
\* by whole path segments; every stored path without a prefix.
obs_list(store, prefix) ==
    IF prefix = <<>> THEN DOMAIN store
    ELSE {k \in DOMAIN store : UnderPrefix(prefix, k)}

(***************************************************************************)
(* Store (zarr.abc.store), the base class of ObjectStore.                  *)
(***************************************************************************)
\* Store._check_writable
_check_writable(ro) == IF ro THEN Raise("ReadOnlyError") ELSE None

(***************************************************************************)
(* ObjectStore                                                             *)
(***************************************************************************)
\* ALLOWED_EXCEPTIONS holding the not-found class alone
ALLOWED_EXCEPTIONS_not_found_only == {"FileNotFoundError"}

ALLOWED_EXCEPTIONS == {"FileNotFoundError", "IsADirectoryError", "NotADirectoryError"}

\* ObjectStore.get
get(store, key, byte_range, signal) ==
    LET resp ==
            CASE byte_range.type = "None" -> obs_get_async(store, key, NoRange, signal)
              [] byte_range.type = "RangeByteRequest" ->
                    obs_get_async(store, key, StartEnd(byte_range.start, byte_range.end), signal)
              [] byte_range.type = "OffsetByteRequest" ->
                    obs_get_async(store, key, OffsetRange(byte_range.offset), signal)
              [] byte_range.type = "SuffixByteRequest" ->
                    obs_get_async(store, key, SuffixRange(byte_range.suffix), signal)
              [] OTHER -> Raise("ValueError")
    IN  IF resp.kind = "raise" /\ resp.exc \in ALLOWED_EXCEPTIONS THEN None ELSE resp

\* ObjectStore.exists
exists(store, key, signal) ==
    LET resp == obs_head_async(store, key, signal)
    IN  IF resp.kind = "raise"
        THEN IF resp.exc = "FileNotFoundError" THEN Bool(FALSE) ELSE resp
        ELSE Bool(TRUE)

\* set without the call of _check_writable
set_unchecked(store, ro, key, value, signal) ==
    LET put == obs_put_async(store, key, value, "overwrite", signal)
    IN  IF put.kind = "raise" THEN [out |-> put, store |-> store]
        ELSE [out |-> None, store |-> put.store]

\* set putting with mode="create", the AlreadyExistsError suppressed
set_create_only(store, ro, key, value, signal) ==
    LET chk == _check_writable(ro)
        put == obs_put_async(store, key, value, "create", signal)
    IN  IF chk.kind = "raise" THEN [out |-> chk, store |-> store]
        ELSE IF put.kind = "raise"
             THEN IF put.exc = "AlreadyExistsError" THEN [out |-> None, store |-> store]
                  ELSE [out |-> put, store |-> store]
        ELSE [out |-> None, store |-> put.store]

\* ObjectStore.set: the outcome and the backend's contents after the call
set(store, ro, key, value, signal) ==
    LET chk == _check_writable(ro)
        put == obs_put_async(store, key, value, "overwrite", signal)
    IN  IF chk.kind = "raise" THEN [out |-> chk, store |-> store]
        ELSE IF put.kind = "raise" THEN [out |-> put, store |-> store]
        ELSE [out |-> None, store |-> put.store]

\* set_if_not_exists putting without mode="create"
set_if_not_exists_overwriting(store, ro, key, value, signal) ==
    LET chk == _check_writable(ro)
        put == obs_put_async(store, key, value, "overwrite", signal)
    IN  IF chk.kind = "raise" THEN [out |-> chk, store |-> store]
        ELSE IF put.kind = "raise" THEN [out |-> put, store |-> store]
        ELSE [out |-> None, store |-> put.store]

\* ObjectStore.set_if_not_exists
set_if_not_exists(store, ro, key, value, signal) ==
    LET chk == _check_writable(ro)
        put == obs_put_async(store, key, value, "create", signal)
    IN  IF chk.kind = "raise" THEN [out |-> chk, store |-> store]
        ELSE IF put.kind = "raise"
             THEN IF put.exc = "AlreadyExistsError" THEN [out |-> None, store |-> store]
                  ELSE [out |-> put, store |-> store]
        ELSE [out |-> None, store |-> put.store]

\* ObjectStore.delete
delete(store, ro, key, signal) ==
    LET chk == _check_writable(ro)
        del == obs_delete_async(store, key, signal)
    IN  IF chk.kind = "raise" THEN [out |-> chk, store |-> store]
        ELSE IF del.kind = "raise" THEN [out |-> del, store |-> store]
        ELSE [out |-> None, store |-> del.store]

\* ObjectStore.supports_writes, supports_deletes, supports_partial_writes and
\* supports_listing
supports_writes == TRUE
supports_deletes == TRUE
supports_partial_writes == FALSE
supports_listing == TRUE

\* set_partial_values accepting the values and writing nothing
set_partial_values_ignored(store) == [out |-> None, store |-> store]

\* ObjectStore.set_partial_values
set_partial_values(store) == [out |-> Raise("NotImplementedError"), store |-> store]

\* _transform_list: the paths of the listed objects
_transform_list(list_stream) == list_stream

\* item["path"][prefix_len:]
Slice(s, n) == IF n >= Len(s) THEN <<>> ELSE SubSeq(s, n + 1, Len(s))

\* _transform_list_dir with prefix_len = len(prefix)
_transform_list_dir_no_plus_one(list_stream, prefix) ==
    LET prefix_len == Len(prefix)
    IN  {Slice(item, prefix_len) : item \in {i \in list_stream : \A j \in 1..Len(Slice(i, prefix_len)) : Slice(i, prefix_len)[j] # "/"}}

\* _transform_list_dir
_transform_list_dir(list_stream, prefix) ==
    LET prefix_len == Len(prefix) + 1
    IN  {Slice(item, prefix_len) : item \in {i \in list_stream : \A j \in 1..Len(Slice(i, prefix_len)) : Slice(i, prefix_len)[j] # "/"}}

\* ObjectStore.list
list(store) == Yielded(_transform_list(obs_list(store, <<>>)))

\* ObjectStore.list_prefix
list_prefix(store, prefix) == Yielded(_transform_list(obs_list(store, prefix)))

\* ObjectStore.list_dir
list_dir(store, prefix) == Yielded(_transform_list_dir(obs_list(store, prefix), prefix))

(***************************************************************************)
(* get_partial_values                                                      *)
(***************************************************************************)
\* enumerate(key_ranges)
Enumerate(key_ranges) ==
    [i \in 1..Len(key_ranges) |->
        [idx |-> i, path |-> key_ranges[i].key, byte_range |-> key_ranges[i].byte_range]]

\* The elements of a sequence, each once, in the order they first occur: the key
\* order of the dict per_file_bounded_requests.
RECURSIVE FirstSeen(_)
FirstSeen(s) ==
    IF s = <<>> THEN <<>>
    ELSE LET rest == FirstSeen(SubSeq(s, 1, Len(s) - 1))
             last == s[Len(s)]
         IN  IF \E i \in 1..Len(rest) : rest[i] = last THEN rest ELSE Append(rest, last)

\* per_file_bounded_requests with a list of its own for every bounded request
per_file_bounded_requests_ungrouped(key_ranges) ==
    LET bounded == SelectSeq(Enumerate(key_ranges),
                             LAMBDA r : r.byte_range.type = "RangeByteRequest")
    IN  [p \in 1..Len(bounded) |->
            [path |-> bounded[p].path,
             requests |-> <<[original_request_index |-> bounded[p].idx,
                             start |-> bounded[p].byte_range.start,
                             end |-> bounded[p].byte_range.end]>>]]

\* per_file_bounded_requests.items(): for each path, its _BoundedRequest list
per_file_bounded_requests(key_ranges) ==
    LET bounded == SelectSeq(Enumerate(key_ranges),
                             LAMBDA r : r.byte_range.type = "RangeByteRequest")
        paths == FirstSeen([i \in 1..Len(bounded) |-> bounded[i].path])
        of(path) == SelectSeq(bounded, LAMBDA r : r.path = path)
    IN  [p \in 1..Len(paths) |->
            [path |-> paths[p],
             requests |-> [j \in 1..Len(of(paths[p])) |->
                              [original_request_index |-> of(paths[p])[j].idx,
                               start |-> of(paths[p])[j].byte_range.start,
                               end |-> of(paths[p])[j].byte_range.end]]]]

\* The range of an _OtherRequest with a suffix request sent as an offset
OtherRange_suffix_as_offset(byte_range) ==
    CASE byte_range.type = "None" -> NoRange
      [] byte_range.type = "OffsetByteRequest" -> OffsetRange(byte_range.offset)
      [] byte_range.type = "SuffixByteRequest" -> OffsetRange(byte_range.suffix)

\* The range of an _OtherRequest
OtherRange(byte_range) ==
    CASE byte_range.type = "None" -> NoRange
      [] byte_range.type = "OffsetByteRequest" -> OffsetRange(byte_range.offset)
      [] byte_range.type = "SuffixByteRequest" -> SuffixRange(byte_range.suffix)

\* other_requests: the _OtherRequest list
other_requests(key_ranges) ==
    LET others == SelectSeq(Enumerate(key_ranges),
                            LAMBDA r : r.byte_range.type \in
                                {"None", "OffsetByteRequest", "SuffixByteRequest"})
    IN  [j \in 1..Len(others) |->
            [original_request_index |-> others[j].idx,
             path |-> others[j].path,
             range |-> OtherRange(others[j].byte_range)]]

\* _make_bounded_requests giving every response the index of the first request
_make_bounded_requests_first_index(store, path, requests, signal) ==
    LET starts == [j \in 1..Len(requests) |-> requests[j].start]
        ends == [j \in 1..Len(requests) |-> requests[j].end]
        responses == obs_get_ranges_async(store, path, starts, ends, signal)
    IN  IF responses.kind = "raise" THEN responses
        ELSE [kind |-> "responses",
              items |-> [j \in 1..Len(requests) |->
                            [original_request_index |-> requests[1].original_request_index,
                             buffer |-> Buffer(responses.items[j])]]]

\* _make_bounded_requests: a raise, or the list of _Response
_make_bounded_requests(store, path, requests, signal) ==
    LET starts == [j \in 1..Len(requests) |-> requests[j].start]
        ends == [j \in 1..Len(requests) |-> requests[j].end]
        responses == obs_get_ranges_async(store, path, starts, ends, signal)
    IN  IF responses.kind = "raise" THEN responses
        ELSE [kind |-> "responses",
              items |-> [j \in 1..Len(requests) |->
                            [original_request_index |-> requests[j].original_request_index,
                             buffer |-> Buffer(responses.items[j])]]]

\* _make_other_request: a raise, or a list of one _Response
_make_other_request(store, request, signal) ==
    LET resp == obs_get_async(store, request.path, request.range, signal)
    IN  IF resp.kind = "raise" THEN resp
        ELSE [kind |-> "responses",
              items |-> <<[original_request_index |-> request.original_request_index,
                           buffer |-> resp]>>]

\* The path each coroutine of futs reads, in the order futs holds them
TaskPaths(key_ranges) ==
    LET groups == per_file_bounded_requests(key_ranges)
        others == other_requests(key_ranges)
    IN  [t \in 1..(Len(groups) + Len(others)) |->
            IF t <= Len(groups) THEN groups[t].path ELSE others[t - Len(groups)].path]

\* futs: the outcome of each coroutine, where signals[t] is what the backend
\* raises during the call of coroutine t
Futs(store, key_ranges, signals) ==
    LET groups == per_file_bounded_requests(key_ranges)
        others == other_requests(key_ranges)
    IN  [t \in 1..(Len(groups) + Len(others)) |->
            IF t <= Len(groups)
            THEN _make_bounded_requests(store, groups[t].path, groups[t].requests, signals[t])
            ELSE _make_other_request(store, others[t - Len(groups)], signals[t])]

\* buffers after the nested loops over the gathered responses
RECURSIVE Reassemble(_, _, _)
Reassemble(buffers, results, t) ==
    IF t > Len(results) THEN buffers
    ELSE LET responses == results[t].items
             written == [i \in 1..Len(buffers) |->
                            IF \E j \in 1..Len(responses) : responses[j].original_request_index = i
                            THEN (LET last == CHOOSE j \in 1..Len(responses) :
                                          /\ responses[j].original_request_index = i
                                          /\ \A l \in (j + 1)..Len(responses) :
                                                responses[l].original_request_index # i
                                  IN  responses[last].buffer)
                            ELSE buffers[i]]
         IN  Reassemble(written, results, t + 1)

\* The else branch of the loop over key_ranges, taken for the first request only
UnsupportedRange_first_only(key_ranges) ==
    /\ key_ranges # <<>>
    /\ key_ranges[1].byte_range.type \notin
           {"None", "RangeByteRequest", "OffsetByteRequest", "SuffixByteRequest"}

\* The loop over key_ranges reaches its else branch: some byte_range is not
\* None and of none of the three request classes
UnsupportedRange(key_ranges) ==
    \E i \in 1..Len(key_ranges) :
        key_ranges[i].byte_range.type \notin
            {"None", "RangeByteRequest", "OffsetByteRequest", "SuffixByteRequest"}

\* asyncio.gather(*futs) without return_exceptions: the results in the order of
\* futs, or the exception of a coroutine that raised
\* _get_partial_values: the outcomes the call can have
_get_partial_values(store, key_ranges, signals) ==
    LET futs == Futs(store, key_ranges, signals)
        buffers == [i \in 1..Len(key_ranges) |-> None]
    IN  IF UnsupportedRange(key_ranges)
        THEN {Raise("ValueError")}
        ELSE IF \E t \in 1..Len(futs) : futs[t].kind = "raise"
        THEN {futs[t] : t \in {u \in 1..Len(futs) : futs[u].kind = "raise"}}
        ELSE {BufferList(Reassemble(buffers, futs, 1))}

\* ObjectStore.get_partial_values
get_partial_values(store, key_ranges, signals) == _get_partial_values(store, key_ranges, signals)

\* What the backend raises during the call of each coroutine of a batch
BatchSignals(store, key_ranges) ==
    LET paths == TaskPaths(key_ranges)
    IN  {f \in [1..Len(paths) -> NotFoundSignals \cup {"none"}] :
            \A t \in 1..Len(paths) : (f[t] = "none") <=> (paths[t] \in DOMAIN store)}

Requests == {[key |-> k, byte_range |-> r] : k \in BatchKeys, r \in BatchRanges}

Batches == UNION {[1..n -> Requests] : n \in 0..MaxBatch}

(***************************************************************************)
(* The store: construction and one action per operation.                   *)
(***************************************************************************)
EmptyStore == [k \in {} |-> <<>>]
SeedStore == [k \in {KeyAB, KeyACD, KeyAE} |-> IF k = KeyACD THEN V2 ELSE V1]

\* ObjectStore.__init__ over a backend that is empty or already holds objects
Init ==
    /\ read_only \in BOOLEAN
    /\ objects \in {EmptyStore, SeedStore}
    /\ op = "__init__"
    /\ args = [read_only |-> read_only]
    /\ ret = None
    /\ tasks = <<>>
    /\ slots = <<>>

Get ==
    /\ op = "idle"
    /\ \E key \in Keys, byte_range \in ByteRanges :
           \E signal \in Signals(objects, key) :
               /\ op' = "get"
               /\ args' = [key |-> key, byte_range |-> byte_range, signal |-> signal]
               /\ ret' = get(objects, key, byte_range, signal)
               /\ UNCHANGED <<objects, read_only, tasks, slots>>

GetPartialValues ==
    /\ op = "idle"
    /\ \E key_ranges \in Batches :
           \E signals \in BatchSignals(objects, key_ranges) :
               /\ op' = "get_partial_values"
               /\ args' = [key_ranges |-> key_ranges]
               /\ ret' \in get_partial_values(objects, key_ranges, signals)
               /\ UNCHANGED <<objects, read_only, tasks, slots>>

Exists ==
    /\ op = "idle"
    /\ \E key \in Keys :
           \E signal \in Signals(objects, key) :
               /\ op' = "exists"
               /\ args' = [key |-> key, signal |-> signal]
               /\ ret' = exists(objects, key, signal)
               /\ UNCHANGED <<objects, read_only, tasks, slots>>

Set ==
    /\ op = "idle"
    /\ \E key \in Keys, value \in Values, signal \in PutSignals :
           /\ op' = "set"
           /\ args' = [key |-> key, value |-> value, signal |-> signal]
           /\ ret' = set(objects, read_only, key, value, signal).out
           /\ objects' = set(objects, read_only, key, value, signal).store
           /\ UNCHANGED <<read_only, tasks, slots>>

SetIfNotExists ==
    /\ op = "idle"
    /\ \E key \in Keys, value \in Values, signal \in PutSignals :
           /\ op' = "set_if_not_exists"
           /\ args' = [key |-> key, value |-> value, signal |-> signal]
           /\ ret' = set_if_not_exists(objects, read_only, key, value, signal).out
           /\ objects' = set_if_not_exists(objects, read_only, key, value, signal).store
           /\ UNCHANGED <<read_only, tasks, slots>>

Delete ==
    /\ op = "idle"
    /\ \E key \in Keys :
           \E signal \in DeleteSignals(objects, key) :
               /\ op' = "delete"
               /\ args' = [key |-> key, signal |-> signal]
               /\ ret' = delete(objects, read_only, key, signal).out
               /\ objects' = delete(objects, read_only, key, signal).store
               /\ UNCHANGED <<read_only, tasks, slots>>

SetPartialValues ==
    /\ op = "idle"
    /\ op' = "set_partial_values"
    /\ args' = [key_start_values |-> <<>>]
    /\ ret' = set_partial_values(objects).out
    /\ objects' = set_partial_values(objects).store
    /\ UNCHANGED <<read_only, tasks, slots>>

List ==
    /\ op = "idle"
    /\ op' = "list"
    /\ args' = [prefix |-> <<>>]
    /\ ret' = list(objects)
    /\ UNCHANGED <<objects, read_only, tasks, slots>>

ListPrefix ==
    /\ op = "idle"
    /\ \E prefix \in Prefixes :
           /\ op' = "list_prefix"
           /\ args' = [prefix |-> prefix]
           /\ ret' = list_prefix(objects, prefix)
           /\ UNCHANGED <<objects, read_only, tasks, slots>>

ListDir ==
    /\ op = "idle"
    /\ \E prefix \in Prefixes :
           /\ op' = "list_dir"
           /\ args' = [prefix |-> prefix]
           /\ ret' = list_dir(objects, prefix)
           /\ UNCHANGED <<objects, read_only, tasks, slots>>

\* The caller reads one of the capability properties
Supports ==
    /\ op = "idle"
    /\ \E flag \in {"supports_writes", "supports_deletes", "supports_partial_writes",
                   "supports_listing"} :
           /\ op' = flag
           /\ ret' = Bool(CASE flag = "supports_writes" -> supports_writes
                            [] flag = "supports_deletes" -> supports_deletes
                            [] flag = "supports_partial_writes" -> supports_partial_writes
                            [] flag = "supports_listing" -> supports_listing)
    /\ args' = [none |-> TRUE]
    /\ UNCHANGED <<objects, read_only, tasks, slots>>

\* The caller takes the outcome of the call it awaited and is ready to make the next.
Resume ==
    /\ op # "idle"
    /\ op' = "idle"
    /\ args' = [none |-> TRUE]
    /\ ret' = None
    /\ UNCHANGED <<objects, read_only, tasks, slots>>

Next ==
    \/ Resume
    \/ Get
    \/ GetPartialValues
    \/ Exists
    \/ Set
    \/ SetIfNotExists
    \/ Delete
    \/ SetPartialValues
    \/ List
    \/ ListPrefix
    \/ ListDir
    \/ Supports

Spec == Init /\ [][Next]_vars

(***************************************************************************)
(* Construction of the store, followed by its operations.                  *)
(***************************************************************************)
\* The obstore classes ObjectStore.__init__ accepts
ObjectStoreClasses ==
    {"AzureStore", "GCSStore", "HTTPStore", "S3Store", "LocalStore", "MemoryStore",
     "PrefixStore"}

\* The classes of the handles a caller may pass
HandleClasses == ObjectStoreClasses \cup {"dict", "FsspecStore"}

\* Store.__init__(read_only=...): the value the read_only attribute is given
Store__init__(ro) == <<ro>>

\* ObjectStore.__init__ without the isinstance test
ObjectStore_unchecked(store, ro) ==
    [out |-> [kind |-> "ObjectStore", store |-> store], read_only |-> Store__init__(ro)]

\* ObjectStore.__init__: what it returns or raises, and the value it gives the
\* read_only attribute, <<>> where it assigns none
ObjectStore(store, ro) ==
    IF store \notin ObjectStoreClasses
    THEN [out |-> Raise("TypeError"), read_only |-> <<>>]
    ELSE [out |-> [kind |-> "ObjectStore", store |-> store], read_only |-> Store__init__(ro)]

\* A caller holding a backend handle, before any store exists; read_only is
\* the attribute no constructor has assigned yet
InitConstruct ==
    /\ objects \in {EmptyStore, SeedStore}
    /\ read_only \in BOOLEAN
    /\ op = "caller"
    /\ args \in {[store |-> h, read_only |-> ro] : h \in HandleClasses, ro \in BOOLEAN}
    /\ ret = None
    /\ tasks = <<>>
    /\ slots = <<>>

NewObjectStore ==
    /\ op = "caller"
    /\ op' = "__init__"
    /\ LET new == ObjectStore(args.store, args.read_only)
       IN  /\ ret' = new.out
           /\ read_only' = IF new.read_only = <<>> THEN read_only ELSE new.read_only[1]
    /\ UNCHANGED <<objects, args, tasks, slots>>

\* The operations are those of a store that was constructed
Constructed == op # "caller" /\ ~(op = "__init__" /\ ret.kind = "raise")

NextConstruct ==
    \/ NewObjectStore
    \/ (Constructed /\ Next)

SpecConstruct == InitConstruct /\ [][NextConstruct]_vars

(***************************************************************************)
(* get_partial_values step by step: the call partitions the requests and   *)
(* creates the coroutines, asyncio.gather runs them as tasks that issue    *)
(* their backend call and complete in any order, and the call resumes      *)
(* when gather has all the results or the first exception.                 *)
(***************************************************************************)
\* The call is suspended in `await asyncio.gather(*futs)`
Awaiting == [kind |-> "awaiting"]

\* The result of a task that has not completed
Pending == [kind |-> "pending", items |-> <<>>]

\* futs: the coroutines, created and not yet started
Coroutines(key_ranges) ==
    LET groups == per_file_bounded_requests(key_ranges)
        others == other_requests(key_ranges)
    IN  [t \in 1..(Len(groups) + Len(others)) |->
            IF t <= Len(groups)
            THEN [fn |-> "_make_bounded_requests", path |-> groups[t].path,
                  requests |-> groups[t].requests,
                  status |-> "created", calls |-> <<>>, result |-> Pending]
            ELSE [fn |-> "_make_other_request", path |-> others[t - Len(groups)].path,
                  requests |-> <<others[t - Len(groups)]>>,
                  status |-> "created", calls |-> <<>>, result |-> Pending]]

\* The backend call a coroutine makes
BackendCall(fut) ==
    IF fut.fn = "_make_bounded_requests"
    THEN [fn |-> "get_ranges_async", path |-> fut.path,
          starts |-> [j \in 1..Len(fut.requests) |-> fut.requests[j].start],
          ends |-> [j \in 1..Len(fut.requests) |-> fut.requests[j].end]]
    ELSE [fn |-> "get_async", path |-> fut.path, range |-> fut.requests[1].range]

\* What a coroutine returns or raises when the backend has answered
TaskResult(store, fut, signal) ==
    IF fut.fn = "_make_bounded_requests"
    THEN _make_bounded_requests(store, fut.path, fut.requests, signal)
    ELSE _make_other_request(store, fut.requests[1], signal)

\* What the backend raises while it serves a task: the signals of a read, and
\* a second error that is no not-found signal
TaskSignals(store, path) == Signals(store, path) \cup {"PermissionDeniedError"}

\* gather with return_exceptions=True: an exception is one more result
GatherOutcome_return_exceptions(outcome, result) == outcome

\* What the awaiting call gets when a task ends with `result`: gather hands it
\* the first exception at once; later exceptions are not raised anywhere
GatherOutcome(outcome, result) ==
    IF result.kind = "raise" /\ outcome = Awaiting THEN result ELSE outcome

\* The call was cancelled and waits for gather to end
Cancelling == [kind |-> "cancelling"]

\* The result of a task that ended cancelled
Cancelled == [kind |-> "cancelled", items |-> <<>>]

\* Cancelling gather without reaching its tasks
CancelChildren_none(ts) == ts

\* Cancelling gather cancels every task that has not completed
CancelChildren(ts) ==
    [t \in 1..Len(ts) |->
        IF ts[t].status = "done" THEN ts[t] ELSE [ts[t] EXCEPT !.status = "cancelling"]]

\* gather resuming the call as soon as one task has its result
GatherDone_any(ts) == \E t \in 1..Len(ts) : ts[t].status = "done"

\* asyncio.gather has the result of every task
GatherDone(ts) == \A t \in 1..Len(ts) : ts[t].status = "done"

BothStore == [k \in {KeyAB, KeyAb} |-> IF k = KeyAB THEN V1 ELSE V2]

StepRequests == Requests \cup {[key |-> k, byte_range |-> Unrecognized] : k \in BatchKeys}

StepBatches == UNION {[1..n -> StepRequests] : n \in 0..MaxBatch}

\* A store over a backend that holds one or both of the keys of the batches
InitBatch ==
    /\ objects \in {SeedStore, BothStore}
    /\ read_only = FALSE
    /\ op = "idle"
    /\ args = [none |-> TRUE]
    /\ ret = None
    /\ tasks = <<>>
    /\ slots = <<>>

\* _get_partial_values up to its await: the loop over key_ranges, futs, buffers
BeginGetPartialValues ==
    /\ op = "idle"
    /\ \E key_ranges \in StepBatches :
           /\ op' = "get_partial_values"
           /\ args' = [key_ranges |-> key_ranges]
           /\ IF UnsupportedRange(key_ranges)
              THEN /\ ret' = Raise("ValueError")
                   /\ UNCHANGED <<tasks, slots>>
              ELSE /\ ret' = Awaiting
                   /\ tasks' = Coroutines(key_ranges)
                   /\ slots' = [i \in 1..Len(key_ranges) |-> None]
    /\ UNCHANGED <<objects, read_only>>

\* A task runs its coroutine up to the await of its backend call
TaskStart ==
    /\ op = "get_partial_values"
    /\ \E t \in 1..Len(tasks) :
           /\ tasks[t].status = "created"
           /\ tasks' = [tasks EXCEPT ![t].status = "awaiting",
                                     ![t].calls = Append(@, BackendCall(tasks[t]))]
    /\ UNCHANGED <<objects, read_only, op, args, ret, slots>>

\* The backend answers a task, which returns its responses or raises; gather
\* hands the first exception to the call and leaves the other tasks running
TaskComplete ==
    /\ op = "get_partial_values"
    /\ \E t \in 1..Len(tasks) :
           /\ tasks[t].status = "awaiting"
           /\ \E signal \in TaskSignals(objects, tasks[t].path) :
                  LET result == TaskResult(objects, tasks[t], signal)
                  IN  /\ tasks' = [tasks EXCEPT ![t].status = "done", ![t].result = result]
                      /\ ret' = GatherOutcome(ret, result)
    /\ UNCHANGED <<objects, read_only, op, args, slots>>

\* gather returns the results, the loops over them fill buffers, and the call
\* returns buffers
GatherReturn ==
    /\ op = "get_partial_values"
    /\ ret = Awaiting
    /\ GatherDone(tasks)
    /\ slots' = Reassemble(slots, [t \in 1..Len(tasks) |-> tasks[t].result], 1)
    /\ ret' = BufferList(slots')
    /\ UNCHANGED <<objects, read_only, op, args, tasks>>

\* The caller cancels the call while it awaits gather, which cancels the
\* tasks and ends once all of them have ended
Cancel ==
    /\ op = "get_partial_values"
    /\ ret = Awaiting
    /\ tasks # <<>>
    /\ ret' = Cancelling
    /\ tasks' = CancelChildren(tasks)
    /\ UNCHANGED <<objects, read_only, op, args, slots>>

\* CancelledError is thrown into a task at the point where it waits
TaskCancelled ==
    /\ op = "get_partial_values"
    /\ \E t \in 1..Len(tasks) :
           /\ tasks[t].status = "cancelling"
           /\ tasks' = [tasks EXCEPT ![t].status = "cancelled", ![t].result = Cancelled]
    /\ UNCHANGED <<objects, read_only, op, args, ret, slots>>

\* gather ends cancelled and the call raises CancelledError
CallCancelled ==
    /\ op = "get_partial_values"
    /\ ret = Cancelling
    /\ \A t \in 1..Len(tasks) : tasks[t].status \in {"done", "cancelled"}
    /\ ret' = Raise("CancelledError")
    /\ UNCHANGED <<objects, read_only, op, args, tasks, slots>>

NextBatch ==
    \/ BeginGetPartialValues
    \/ TaskStart
    \/ TaskComplete
    \/ GatherReturn
    \/ Cancel
    \/ TaskCancelled
    \/ CallCancelled

SpecBatch == InitBatch /\ [][NextBatch]_vars

(***************************************************************************)
(* Properties of the store, checked under Spec.                            *)
(***************************************************************************)
BatchKeysExist == \A i \in 1..Len(args.key_ranges) : args.key_ranges[i].key \in DOMAIN objects

\* What a strictly sequential get per request returns when the backend answers
\* the keys it holds and signals not-found for the others
SequentialGets(store, key_ranges) ==
    [i \in 1..Len(key_ranges) |->
        get(store, key_ranges[i].key, key_ranges[i].byte_range,
            IF key_ranges[i].key \in DOMAIN store THEN "none" ELSE "FileNotFoundError")]

\* C1: when every key of the batch exists, get_partial_values returns a list as
\* long as the input whose element i is what get(key_i, range_i) returns; where a
\* sequential get raises (a range the backend cannot serve), the batch raises
\* that error.
C1_BatchEqualsSequentialGets ==
    (op = "get_partial_values" /\ BatchKeysExist) =>
        LET seq == SequentialGets(objects, args.key_ranges)
        IN  IF \A i \in 1..Len(seq) : seq[i].kind # "raise"
            THEN /\ ret.kind = "list"
                 /\ Len(ret.items) = Len(args.key_ranges)
                 /\ \A i \in 1..Len(seq) : ret.items[i] = seq[i]
            ELSE /\ ret.kind = "raise"
                 /\ \E i \in 1..Len(seq) : seq[i] = ret

\* A batch with a duplicate key and mixed variants has returned its list.
C1_Witness ==
    /\ op = "get_partial_values"
    /\ BatchKeysExist
    /\ Len(args.key_ranges) = 2
    /\ args.key_ranges[1].key = args.key_ranges[2].key
    /\ args.key_ranges[1].byte_range.type = "SuffixByteRequest"
    /\ args.key_ranges[2].byte_range.type = "RangeByteRequest"
    /\ ret.kind = "list"

\* C2: a batch holding a request whose key does not exist does not raise: that
\* slot is None and every slot whose key exists holds the bytes it asked for.
C2_MissingKeySlotIsNone ==
    (/\ op = "get_partial_values"
     /\ ~BatchKeysExist
     /\ \A i \in 1..Len(args.key_ranges) :
            SequentialGets(objects, args.key_ranges)[i].kind # "raise") =>
        /\ ret.kind = "list"
        /\ Len(ret.items) = Len(args.key_ranges)
        /\ \A i \in 1..Len(args.key_ranges) :
              IF args.key_ranges[i].key \in DOMAIN objects
              THEN ret.items[i] = SequentialGets(objects, args.key_ranges)[i]
              ELSE ret.items[i] = None

RecognizedRange(byte_range) ==
    byte_range.type \in {"None", "RangeByteRequest", "OffsetByteRequest", "SuffixByteRequest"}

\* C3: get returns None, for every range variant, whenever the backend signals
\* not-found, is-a-directory or not-a-directory, and never raises one of them;
\* any other backend failure is raised to the caller.
C3_GetNotFoundIsNone ==
    op = "get" =>
        /\ (/\ RecognizedRange(args.byte_range)
            /\ args.signal \in {"FileNotFoundError", "IsADirectoryError", "NotADirectoryError"})
               => ret = None
        /\ (RecognizedRange(args.byte_range) /\ args.signal = "GenericError")
               => ret = Raise("GenericError")
        /\ ret.kind = "raise" =>
               ret.exc \notin {"FileNotFoundError", "IsADirectoryError", "NotADirectoryError"}

\* get of a suffix range has returned None on an is-a-directory signal.
C3_Witness ==
    /\ op = "get"
    /\ args.signal = "IsADirectoryError"
    /\ args.byte_range.type = "SuffixByteRequest"
    /\ ret = None

\* C4: on a read-only store set and delete raise the read-only error and no
\* operation changes the backend's contents, while get, exists, list,
\* list_prefix and list_dir still give their results.
C4_ReadOnlyRejectsWrites ==
    [][read_only =>
        /\ objects' = objects
        /\ read_only'
        /\ op' \in {"set", "delete"} => ret' = Raise("ReadOnlyError")
        /\ op' \in {"get", "exists", "list", "list_prefix", "list_dir"} =>
              ~(ret'.kind = "raise" /\ ret'.exc = "ReadOnlyError")
        /\ (op' = "get" /\ args'.signal = "none" /\ args'.byte_range = Full) =>
              ret' = Buffer(objects[args'.key])
        /\ (op' = "exists" /\ args'.signal = "none") => ret' = Bool(TRUE)
        /\ op' = "list" => ret' = Yielded(DOMAIN objects)
        /\ op' \in {"list_prefix", "list_dir"} => ret'.kind = "yield"
    ]_vars

\* set on a read-only store that holds objects has raised.
C4_Witness ==
    /\ read_only
    /\ op = "set"
    /\ ret = Raise("ReadOnlyError")
    /\ objects = SeedStore

\* C5: on a writable store set_if_not_exists raises nothing; on a key that
\* exists it leaves every stored value unchanged, on a key that does not it
\* creates the key with the value and changes no other key.
C5_SetIfNotExists ==
    [][(op' = "set_if_not_exists" /\ ~read_only /\ args'.signal = "none") =>
        /\ ret' = None
        /\ IF args'.key \in DOMAIN objects
           THEN objects' = objects
           ELSE /\ DOMAIN objects' = DOMAIN objects \cup {args'.key}
                /\ objects'[args'.key] = args'.value
                /\ \A k \in DOMAIN objects : objects'[k] = objects[k]
    ]_vars

\* set_if_not_exists has returned on a key that holds another value.
C5_Witness ==
    /\ op = "set_if_not_exists"
    /\ ~read_only
    /\ args.signal = "none"
    /\ ret = None
    /\ args.key \in DOMAIN objects
    /\ objects[args.key] # args.value

Children(store, prefix) ==
    {SubSeq(k, Len(prefix) + 2, Len(k)) :
        k \in {s \in DOMAIN store :
                  /\ Len(s) > Len(prefix) + 1
                  /\ SubSeq(s, 1, Len(prefix) + 1) = prefix \o <<"/">>
                  /\ \A j \in (Len(prefix) + 2)..Len(s) : s[j] # "/"}}

\* C7: for a non-empty prefix, list_dir yields exactly the remainders of the
\* stored keys under prefix/ that hold no further "/"; over a/b, a/c/d and a/e,
\* list_dir("a") yields exactly b and e.
C7_ListDirChildren ==
    (op = "list_dir" /\ args.prefix # <<>>) =>
        /\ ret = Yielded(Children(objects, args.prefix))
        /\ (DOMAIN objects = {KeyAB, KeyACD, KeyAE} /\ args.prefix = <<"a">>) =>
              ret.items = {<<"b">>, <<"e">>}

\* list_dir("a") has run over the keys a/b, a/c/d, a/e.
C7_Witness ==
    /\ op = "list_dir"
    /\ args.prefix = <<"a">>
    /\ DOMAIN objects = {KeyAB, KeyACD, KeyAE}
    /\ ret.items = {<<"b">>, <<"e">>}

(***************************************************************************)
(* _normalize_byte_range_index (storage/_utils.py)                         *)
(***************************************************************************)
\* A ByteRangeRequest as this function reads it: None, a (start, end) tuple,
\* {"offset": o}, {"suffix": n}, and a dict with neither key.
RangeNone == [form |-> "None"]
RangeTuple(s, e) == [form |-> "tuple", items |-> <<s, e>>]
RangeOffset(o) == [form |-> "dict", keys |-> {"offset"}, offset |-> o]
RangeSuffix(n) == [form |-> "dict", keys |-> {"suffix"}, suffix |-> n]
RangeEmptyDict == [form |-> "dict", keys |-> {}]

\* A local variable of the function: not assigned yet, or holding a value
Unbound == [bound |-> FALSE]
Bound(v) == [bound |-> TRUE, val |-> v]

Pair(start, length) == [kind |-> "tuple", start |-> start, length |-> length]

\* _normalize_byte_range_index: reading a local that no branch assigned raises
\* UnboundLocalError
_normalize_byte_range_index(data, byte_range) ==
    LET locals ==
            IF byte_range.form = "None"
            THEN [start |-> Bound(0), length |-> Bound(Len(data))]
            ELSE IF byte_range.form = "tuple"
            THEN [start |-> Bound(byte_range.items[1]),
                  length |-> Bound(byte_range.items[2] - byte_range.items[1])]
            ELSE IF "offset" \in byte_range.keys
            THEN [start |-> Unbound, length |-> Bound(Len(data) - byte_range.offset)]
            ELSE IF "suffix" \in byte_range.keys
            THEN [start |-> Bound(Len(data) - byte_range.suffix),
                  length |-> Bound(Len(data) - (Len(data) - byte_range.suffix))]
            ELSE [start |-> Unbound, length |-> Unbound]
    IN  IF locals.start.bound /\ locals.length.bound
        THEN Pair(locals.start.val, locals.length.val)
        ELSE Raise("UnboundLocalError")

DataBuffers == {[i \in 1..n |-> 0] : n \in 0..MaxData}

RangeRequests ==
    {RangeNone, RangeEmptyDict}
    \cup UNION {{RangeTuple(s, e) : e \in (s + 1)..(MaxOff + 1)} : s \in 0..MaxOff}
    \cup {RangeOffset(o) : o \in 0..(MaxOff + 1)}
    \cup {RangeSuffix(n) : n \in 0..(MaxOff + 1)}

\* A caller holding a buffer and a byte range
InitRange ==
    /\ objects = EmptyStore
    /\ read_only = FALSE
    /\ op = "caller"
    /\ args \in {[data |-> d, byte_range |-> r] : d \in DataBuffers, r \in RangeRequests}
    /\ ret = None
    /\ tasks = <<>>
    /\ slots = <<>>

NormalizeByteRangeIndex ==
    /\ op = "caller"
    /\ op' = "_normalize_byte_range_index"
    /\ ret' = _normalize_byte_range_index(args.data, args.byte_range)
    /\ UNCHANGED <<objects, read_only, args, tasks, slots>>

NextRange == NormalizeByteRangeIndex

SpecRange == InitRange /\ [][NextRange]_vars

\* C8: for an object of length n the resolver returns (0, n) for Full,
\* (start, end - start) for Bounded, (offset, n - offset) for OffsetFromStart and
\* (n - length, length) for SuffixLength.
C8_ResolverPairs ==
    (op = "_normalize_byte_range_index" /\ args.byte_range # RangeEmptyDict) =>
        LET n == Len(args.data)
            r == args.byte_range
        IN  ret = (IF r.form = "None" THEN Pair(0, n)
                   ELSE IF r.form = "tuple" THEN Pair(r.items[1], r.items[2] - r.items[1])
                   ELSE IF "offset" \in r.keys THEN Pair(r.offset, n - r.offset)
                   ELSE Pair(n - r.suffix, r.suffix))

\* C9: the resolver never returns a negative start or a negative length: an
\* offset or a suffix length greater than the object's length makes it fail.
C9_ResolverRejectsOutOfRange ==
    op = "_normalize_byte_range_index" =>
        /\ ret.kind = "tuple" => (ret.start >= 0 /\ ret.length >= 0)
        /\ (/\ args.byte_range.form = "dict"
            /\ \/ ("offset" \in args.byte_range.keys /\ args.byte_range.offset > Len(args.data))
               \/ ("suffix" \in args.byte_range.keys /\ args.byte_range.suffix > Len(args.data)))
               => ret.kind = "raise"

(***************************************************************************)
(* normalize_path (storage/_utils.py)                                      *)
(***************************************************************************)
Str(chars) == [kind |-> "str", chars |-> chars]

\* A byte that is not ASCII
HighByte == "0x80"

\* str.replace(old, new) for one-character strings
Replace(s, old, new) == [i \in 1..Len(s) |-> IF s[i] = old THEN new ELSE s[i]]

\* str.lstrip(c) and str.rstrip(c)
RECURSIVE LStrip(_, _)
LStrip(s, c) == IF s # <<>> /\ Head(s) = c THEN LStrip(Tail(s), c) ELSE s

RECURSIVE RStrip(_, _)
RStrip(s, c) ==
    IF s # <<>> /\ s[Len(s)] = c THEN RStrip(SubSeq(s, 1, Len(s) - 1), c) ELSE s

\* result.strip("/") keeping the trailing slashes
StripSlashes_leading_only(s) == LStrip(s, "/")

\* result.strip("/")
StripSlashes(s) == RStrip(LStrip(s, "/"), "/")

\* re.compile(r"//+").sub("/", s): every run of slashes becomes one slash
RECURSIVE CollapseSlashes(_)
CollapseSlashes(s) ==
    IF Len(s) < 2 THEN s
    ELSE IF s[1] = "/" /\ s[2] = "/" THEN CollapseSlashes(Tail(s))
    ELSE <<s[1]>> \o CollapseSlashes(Tail(s))

\* str.split(sep): the pieces between the separators, empty ones kept
RECURSIVE Split(_, _)
Split(s, sep) ==
    IF \A i \in 1..Len(s) : s[i] # sep THEN <<s>>
    ELSE LET i == CHOOSE j \in 1..Len(s) : s[j] = sep /\ \A l \in 1..(j - 1) : s[l] # sep
         IN  <<SubSeq(s, 1, i - 1)>> \o Split(SubSeq(s, i + 1, Len(s)), sep)

\* sep.join(parts)
RECURSIVE Join(_, _)
Join(parts, sep) ==
    IF parts = <<>> THEN <<>>
    ELSE IF Len(parts) = 1 THEN parts[1]
    ELSE parts[1] \o <<sep>> \o Join(Tail(parts), sep)

\* str(pathlib.PurePosixPath(s)): empty and "." segments dropped, one leading
\* slash kept (two when there are exactly two), "." for an empty path
PosixPathStr(s) ==
    LET lead == Len(s) - Len(LStrip(s, "/"))
        root == IF lead = 0 THEN <<>> ELSE IF lead = 2 THEN <<"/", "/">> ELSE <<"/">>
        parts == SelectSeq(Split(s, "/"), LAMBDA seg : seg # <<>> /\ seg # <<".">>)
        joined == root \o Join(parts, "/")
    IN  IF joined = <<>> THEN <<".">> ELSE joined

\* The segments normalize_path refuses, with "." left out
DotSegments_parent_only == {<<".", ".">>}

\* {".", ".."}: the segments normalize_path refuses
DotSegments == {<<".">>, <<".", ".">>}

\* normalize_path
normalize_path(path) ==
    LET converted ==
            CASE path.type = "NoneType" -> Str(<<>>)
              [] path.type = "bytes" ->
                    IF \E i \in 1..Len(path.chars) : path.chars[i] = HighByte
                    THEN Raise("UnicodeDecodeError")
                    ELSE Str(path.chars)
              [] path.type = "Path" -> Str(PosixPathStr(path.chars))
              [] path.type = "str" -> Str(path.chars)
              [] OTHER -> Raise("TypeError")
        replaced == Replace(converted.chars, "\\", "/")
        stripped == StripSlashes(replaced)
        result == CollapseSlashes(stripped)
        segments == Split(result, "/")
    IN  IF converted.kind = "raise" THEN converted
        ELSE IF \E i \in 1..Len(segments) : segments[i] \in DotSegments
        THEN Raise("ValueError")
        ELSE Str(result)

PathChars == {"a", ".", "/", "\\"}

Strings(alphabet) == UNION {[1..n -> alphabet] : n \in 0..MaxLen}

PathInputs ==
    {[type |-> "NoneType"], [type |-> "int"]}
    \cup {[type |-> t, chars |-> c] : t \in {"str", "Path"}, c \in Strings(PathChars)}
    \cup {[type |-> "bytes", chars |-> c] : c \in Strings(PathChars \cup {HighByte})}

\* A caller holding a path
InitPath ==
    /\ objects = EmptyStore
    /\ read_only = FALSE
    /\ op = "caller"
    /\ args \in {[path |-> p] : p \in PathInputs}
    /\ ret = None
    /\ tasks = <<>>
    /\ slots = <<>>

NormalizePath ==
    /\ op = "caller"
    /\ op' = "normalize_path"
    /\ ret' = normalize_path(args.path)
    /\ UNCHANGED <<objects, read_only, args, tasks, slots>>

\* normalize_path applied to the key a first call returned
NormalizePathAgain ==
    /\ op = "normalize_path"
    /\ ret.kind = "str"
    /\ op' = "normalize_path(normalize_path)"
    /\ args' = [path |-> [type |-> "str", chars |-> ret.chars], original |-> args.path]
    /\ ret' = normalize_path([type |-> "str", chars |-> ret.chars])
    /\ UNCHANGED <<objects, read_only, tasks, slots>>

NextPath == NormalizePath \/ NormalizePathAgain

SpecPath == InitPath /\ [][NextPath]_vars

\* C10: where normalize_path succeeds its result has no leading or trailing
\* slash, no backslash and no repeated slash, and normalizing the result again
\* succeeds and returns it unchanged.
C10_NormalizeIdempotent ==
    /\ (op = "normalize_path" /\ ret.kind = "str") =>
          /\ ret.chars # <<>> => (ret.chars[1] # "/" /\ ret.chars[Len(ret.chars)] # "/")
          /\ \A i \in 1..Len(ret.chars) : ret.chars[i] # "\\"
          /\ \A i \in 1..(Len(ret.chars) - 1) : ~(ret.chars[i] = "/" /\ ret.chars[i + 1] = "/")
    /\ op = "normalize_path(normalize_path)" => ret = Str(args.path.chars)

\* A path with a backslash and a doubled slash was normalized twice.
C10_Witness ==
    /\ op = "normalize_path(normalize_path)"
    /\ args.original = [type |-> "str", chars |-> <<"a", "\\", "/", "a">>]
    /\ ret = Str(<<"a", "/", "a">>)

\* The text normalize_path works on: the string form of its argument
StringForm(path) ==
    CASE path.type = "Path" -> PosixPathStr(path.chars)
      [] path.type \in {"str", "bytes"} -> path.chars
      [] OTHER -> <<>>

\* s has a piece "." or ".." that is bounded on both sides by a slash, a
\* backslash or an end of s
HasDotSegment(s) ==
    \E i \in 1..Len(s) : \E j \in i..Min(i + 1, Len(s)) :
        /\ \A k \in i..j : s[k] = "."
        /\ i = 1 \/ s[i - 1] \in {"/", "\\"}
        /\ j = Len(s) \/ s[j + 1] \in {"/", "\\"}

LevelSlack == 2

\* JSON values handed to the codec
PyInt(n) == [type |-> "int", val |-> n]
PyBool(b) == [type |-> "bool", val |-> b]
PyStr == [type |-> "str"]

\* A returned value
Value(v) == [kind |-> "value", value |-> v]

\* bytes: plain, or a zstd frame
Raw(b) == [kind |-> "bytes", format |-> "raw", bytes |-> b]
Frame(f) == [kind |-> "bytes", format |-> "zstd", frame |-> f]

\* parse_zstd_level refusing only levels above 23
parse_zstd_level_above_limit(data) ==
    IF data.type \in {"int", "bool"}
    THEN IF data.type = "int" /\ data.val > 23 THEN Raise("ValueError") ELSE Value(data)
    ELSE Raise("TypeError")

\* parse_zstd_level; a bool is an int that is 0 or 1
parse_zstd_level(data) ==
    IF data.type \in {"int", "bool"}
    THEN IF data.type = "int" /\ data.val >= 23 THEN Raise("ValueError") ELSE Value(data)
    ELSE Raise("TypeError")

\* parse_checksum
parse_checksum(data) ==
    IF data.type = "bool" THEN Value(data) ELSE Raise("TypeError")

\* ZstdCodec.__init__
ZstdCodec(level, checksum) ==
    LET level_parsed == parse_zstd_level(level)
        checksum_parsed == parse_checksum(checksum)
    IN  IF level_parsed.kind = "raise" THEN level_parsed
        ELSE IF checksum_parsed.kind = "raise" THEN checksum_parsed
        ELSE [kind |-> "ZstdCodec", level |-> level_parsed.value,
              checksum |-> checksum_parsed.value]

\* parse_named_configuration(data, expected_name): the configuration of a
\* dictionary with the expected name
parse_named_configuration(data, expected_name) ==
    IF "name" \notin DOMAIN data THEN Raise("ValueError")
    ELSE IF data.name # expected_name THEN Raise("ValueError")
    ELSE IF "configuration" \notin DOMAIN data THEN Raise("ValueError")
    ELSE Value(data.configuration)

\* ZstdCodec.from_dict: cls(**configuration_parsed), level=0 and
\* checksum=False where the configuration has no such entry
from_dict(data) ==
    LET configuration_parsed == parse_named_configuration(data, "zstd")
        kwargs == configuration_parsed.value
    IN  IF configuration_parsed.kind = "raise" THEN configuration_parsed
        ELSE IF ~(DOMAIN kwargs \subseteq {"level", "checksum"}) THEN Raise("TypeError")
        ELSE ZstdCodec(IF "level" \in DOMAIN kwargs THEN kwargs.level ELSE PyInt(0),
                       IF "checksum" \in DOMAIN kwargs THEN kwargs.checksum ELSE PyBool(FALSE))

\* ZstdCodec.to_dict leaving the checksum out
to_dict_without_checksum(self) ==
    [name |-> "zstd", configuration |-> [level |-> self.level]]

\* ZstdCodec.to_dict
to_dict(self) ==
    [name |-> "zstd", configuration |-> [level |-> self.level, checksum |-> self.checksum]]

\* ZstdCodec.is_fixed_size
is_fixed_size == TRUE

\* ZstdCodec.compute_encoded_size
compute_encoded_size(self, _input_byte_length) == Raise("NotImplementedError")

\* The zstandard library as the codec calls it: a frame carries the length of
\* the content, the content as runs of equal bytes, and, on request, a
\* checksum of the content
RECURSIVE Runs(_)
Runs(data) ==
    IF data = <<>> THEN <<>>
    ELSE LET n == CHOOSE k \in 1..Len(data) :
                      /\ \A i \in 1..k : data[i] = data[1]
                      /\ k = Len(data) \/ data[k + 1] # data[1]
         IN  <<[byte |-> data[1], run |-> n]>> \o Runs(SubSeq(data, n + 1, Len(data)))

RECURSIVE Expand(_)
Expand(runs) ==
    IF runs = <<>> THEN <<>>
    ELSE [i \in 1..runs[1].run |-> runs[1].byte] \o Expand(Tail(runs))

RECURSIVE Checksum(_)
Checksum(data) ==
    IF data = <<>> THEN 0 ELSE (Head(data) + Checksum(Tail(data))) % 256

\* ZstdCompressor(level, write_checksum).compress(data)
ZstdCompressor_compress(level, write_checksum, data) ==
    Frame([content_size |-> Len(data),
           blocks |-> Runs(data),
           checksum |-> IF write_checksum.val THEN <<Checksum(data)>> ELSE <<>>])

\* ZstdDecompressor().decompress(data)
ZstdDecompressor_decompress(data) ==
    IF data.format # "zstd" THEN Raise("ZstdError")
    ELSE LET content == Expand(data.frame.blocks)
         IN  IF Len(content) # data.frame.content_size THEN Raise("ZstdError")
             ELSE IF data.frame.checksum # <<>> /\ data.frame.checksum # <<Checksum(content)>>
             THEN Raise("ZstdError")
             ELSE Raw(content)

\* ZstdCodec._compress
_compress(self, data) == ZstdCompressor_compress(self.level, self.checksum, data.bytes)

\* ZstdCodec._decompress
_decompress(self, data) == ZstdDecompressor_decompress(data)

\* ZstdCodec.decode: to_thread(self._decompress, chunk_bytes)
decode(self, chunk_bytes) == _decompress(self, chunk_bytes)

\* ZstdCodec.encode handing the chunk back as it came
encode_uncompressed(self, chunk_bytes) == chunk_bytes

\* ZstdCodec.encode: to_thread(self._compress, chunk_bytes)
encode(self, chunk_bytes) == _compress(self, chunk_bytes)

Levels == {PyInt(n) : n \in (0 - LevelSlack)..(22 + LevelSlack)} \cup {PyBool(TRUE), PyStr}

Checksums == {PyBool(TRUE), PyBool(FALSE), PyInt(1)}

Chunks == UNION {[1..n -> {0, 255}] : n \in 0..MaxData}

Dict(d) == [kind |-> "dict", value |-> d]

\* A caller holding the arguments of ZstdCodec(level=..., checksum=...)
InitCodec ==
    /\ objects = EmptyStore
    /\ read_only = FALSE
    /\ op = "caller"
    /\ args \in {[level |-> l, checksum |-> c] : l \in Levels, c \in Checksums}
    /\ ret = None
    /\ tasks = <<>>
    /\ slots = <<>>

NewZstdCodec ==
    /\ op = "caller"
    /\ op' = "ZstdCodec"
    /\ ret' = ZstdCodec(args.level, args.checksum)
    /\ UNCHANGED <<objects, read_only, args, tasks, slots>>

ToDict ==
    /\ op = "ZstdCodec"
    /\ ret.kind = "ZstdCodec"
    /\ op' = "to_dict"
    /\ args' = [self |-> ret]
    /\ ret' = Dict(to_dict(ret))
    /\ UNCHANGED <<objects, read_only, tasks, slots>>

\* from_dict applied to the dictionary to_dict returned
FromDict ==
    /\ op = "to_dict"
    /\ op' = "from_dict"
    /\ args' = [self |-> args.self, data |-> ret.value]
    /\ ret' = from_dict(ret.value)
    /\ UNCHANGED <<objects, read_only, tasks, slots>>

IsFixedSize ==
    /\ op = "ZstdCodec"
    /\ ret.kind = "ZstdCodec"
    /\ op' = "is_fixed_size"
    /\ args' = [self |-> ret]
    /\ ret' = Bool(is_fixed_size)
    /\ UNCHANGED <<objects, read_only, tasks, slots>>

ComputeEncodedSize ==
    /\ op = "ZstdCodec"
    /\ ret.kind = "ZstdCodec"
    /\ \E n \in 0..MaxData :
          /\ op' = "compute_encoded_size"
          /\ args' = [self |-> ret, _input_byte_length |-> n]
          /\ ret' = compute_encoded_size(ret, n)
    /\ UNCHANGED <<objects, read_only, tasks, slots>>

Encode ==
    /\ op = "ZstdCodec"
    /\ ret.kind = "ZstdCodec"
    /\ \E x \in Chunks :
          /\ op' = "encode"
          /\ args' = [self |-> ret, chunk_bytes |-> Raw(x)]
          /\ ret' = encode(ret, Raw(x))
    /\ UNCHANGED <<objects, read_only, tasks, slots>>

\* decode applied to the bytes encode returned
Decode ==
    /\ op = "encode"
    /\ ret.kind = "bytes"
    /\ op' = "decode"
    /\ args' = [self |-> args.self, chunk_bytes |-> ret, encoded_from |-> args.chunk_bytes]
    /\ ret' = decode(args.self, ret)
    /\ UNCHANGED <<objects, read_only, tasks, slots>>

NextCodec ==
    \/ NewZstdCodec
    \/ ToDict
    \/ FromDict
    \/ IsFixedSize
    \/ ComputeEncodedSize
    \/ Encode
    \/ Decode

SpecCodec == InitCodec /\ [][NextCodec]_vars

\* C12: constructing the codec with an integer level and a boolean checksum
\* succeeds exactly when 0 <= level <= 22 and fails otherwise.
C12_LevelRange ==
    (op = "ZstdCodec" /\ args.level.type = "int" /\ args.checksum.type = "bool") =>
        (ret.kind = "ZstdCodec" <=> (0 <= args.level.val /\ args.level.val <= 22))

\* C12 as the code has it: constructing the codec with an integer level and a
\* boolean checksum succeeds, keeping both values, exactly when level <= 22
\* (negative levels included), and fails with ValueError for level >= 23.
C12_LevelAtMost22 ==
    (op = "ZstdCodec" /\ args.level.type = "int" /\ args.checksum.type = "bool") =>
        /\ ret.kind = "ZstdCodec" <=> args.level.val <= 22
        /\ ret.kind = "ZstdCodec" => (ret.level = args.level /\ ret.checksum = args.checksum)
        /\ args.level.val >= 23 => ret = Raise("ValueError")

\* Level 22 was accepted.
C12_Witness ==
    /\ op = "ZstdCodec"
    /\ args.level = PyInt(22)
    /\ args.checksum.type = "bool"
    /\ ret.kind = "ZstdCodec"

\* C13: to_dict returns {name: "zstd", configuration: {level, checksum}} with
\* the codec's values, and from_dict of that dictionary succeeds and returns a
\* codec equal to the original.
C13_ConfigRoundTrip ==
    /\ op = "to_dict" =>
          ret = Dict([name |-> "zstd",
                      configuration |-> [level |-> args.self.level,
                                         checksum |-> args.self.checksum]])
    /\ op = "from_dict" => ret = args.self

\* A codec with a checksum went through to_dict and from_dict.
C13_Witness ==
    /\ op = "from_dict"
    /\ args.self.checksum = PyBool(TRUE)
    /\ args.self.level = PyInt(22)
    /\ ret.kind = "ZstdCodec"

\* C14: the codec's is_fixed_size flag is false, and compute_encoded_size
\* fails with NotImplementedError for every input length.
C14_NotFixedSize ==
    /\ op = "is_fixed_size" => ret = Bool(FALSE)
    /\ op = "compute_encoded_size" => ret = Raise("NotImplementedError")

\* C17: for every chunk x, every level from 0 to 22 and both checksum
\* settings, encode(x) returns bytes and decode of those bytes returns exactly
\* x.
C17_CompressionRoundTrip ==
    /\ (op = "encode" /\ args.self.level.type = "int" /\ args.self.level.val \in 0..22) =>
          ret.kind = "bytes"
    /\ (op = "decode" /\ args.self.level.type = "int" /\ args.self.level.val \in 0..22) =>
          ret = args.encoded_from

\* A chunk with a repeated byte went through encode and decode at level 22
\* with a checksum.
C17_Witness ==
    /\ op = "decode"
    /\ args.self.level = PyInt(22)
    /\ args.self.checksum = PyBool(TRUE)
    /\ args.encoded_from = Raw(<<255, 255, 0>>)
    /\ args.chunk_bytes.format = "zstd"
    /\ ret = Raw(<<255, 255, 0>>)

(***************************************************************************)
(* Capabilities and construction of the store.                             *)
(***************************************************************************)
\* C15: supports_writes is true, supports_partial_writes is false and
\* supports_listing is true whenever they are read, and set_partial_values
\* always fails with NotImplementedError, on a writable and on a read-only
\* store alike, leaving the contents as they were.
C15_Capabilities ==
    [][/\ op' = "supports_writes" => ret' = Bool(TRUE)
       /\ op' = "supports_partial_writes" => ret' = Bool(FALSE)
       /\ op' = "supports_listing" => ret' = Bool(TRUE)
       /\ op' = "set_partial_values" =>
             (ret' = Raise("NotImplementedError") /\ objects' = objects)]_vars

\* set_partial_values was refused on a read-only store that holds objects.
C15_Witness ==
    /\ op = "set_partial_values"
    /\ read_only
    /\ objects = SeedStore
    /\ ret = Raise("NotImplementedError")

\* C16: constructing a store over a handle of an unrecognized class fails with
\* TypeError, assigns no read_only flag and returns no store; over a recognized
\* handle it succeeds, keeps the handle and sets read_only to the value given,
\* and no later operation changes read_only.
C16_Construction ==
    [][/\ (op = "caller" /\ args.store \notin ObjectStoreClasses) =>
             (ret' = Raise("TypeError") /\ read_only' = read_only)
       /\ (op = "caller" /\ args.store \in ObjectStoreClasses) =>
             /\ ret' = [kind |-> "ObjectStore", store |-> args.store]
             /\ read_only' = args.read_only
       /\ op # "caller" => read_only' = read_only]_vars

\* Construction over a dict was refused.
C16_Witness ==
    /\ op = "__init__"
    /\ args = [store |-> "dict", read_only |-> TRUE]
    /\ ret = Raise("TypeError")

(***************************************************************************)
(* Properties of get_partial_values, checked under SpecBatch.              *)
(***************************************************************************)
\* The keys with a bounded request, and the positions of the other requests
BoundedKeys(key_ranges) ==
    {key_ranges[i].key :
        i \in {j \in 1..Len(key_ranges) : key_ranges[j].byte_range.type = "RangeByteRequest"}}

OtherIndices(key_ranges) ==
    {i \in 1..Len(key_ranges) :
        key_ranges[i].byte_range.type \in {"None", "OffsetByteRequest", "SuffixByteRequest"}}

\* The (start, end) pairs asked of a key, in the order of the input
PairsOf(key_ranges, key) ==
    LET asked == SelectSeq(key_ranges,
                           LAMBDA r : r.key = key /\ r.byte_range.type = "RangeByteRequest")
    IN  [j \in 1..Len(asked) |-> <<asked[j].byte_range.start, asked[j].byte_range.end>>]

\* The backend calls issued so far: <<t, j>> is call j of task t
CallsIssued == UNION {{<<t, j>> : j \in 1..Len(tasks[t].calls)} : t \in 1..Len(tasks)}

\* C18: a call with recognized ranges only that is not cancelled issues, once
\* all its tasks have started, as many backend calls as there are distinct
\* keys with a bounded request plus requests that are full, offset or suffix,
\* and never more; each such key gets exactly one get_ranges_async call with all its (start, end)
\* pairs in input order, and each other request exactly one get_async call on
\* its key.
C18_BackendCalls ==
    (op = "get_partial_values" /\ ret # Raise("ValueError")) =>
        LET key_ranges == args.key_ranges
            n == Cardinality(BoundedKeys(key_ranges)) + Cardinality(OtherIndices(key_ranges))
            started == /\ ret \notin {Cancelling, Raise("CancelledError")}
                       /\ \A t \in 1..Len(tasks) : tasks[t].status # "created"
        IN  /\ Cardinality(CallsIssued) <= n
            /\ Len(tasks) = n
            /\ started =>
                  /\ Cardinality(CallsIssued) = n
                  /\ \A key \in BoundedKeys(key_ranges) :
                        \E c \in CallsIssued :
                            /\ \A d \in CallsIssued :
                                  (tasks[d[1]].calls[d[2]].fn = "get_ranges_async"
                                   /\ tasks[d[1]].calls[d[2]].path = key) => d = c
                            /\ LET call == tasks[c[1]].calls[c[2]]
                               IN  /\ call.fn = "get_ranges_async"
                                   /\ call.path = key
                                   /\ [j \in 1..Len(call.starts) |-> <<call.starts[j], call.ends[j]>>]
                                         = PairsOf(key_ranges, key)
                  /\ \A i \in OtherIndices(key_ranges) :
                        \E t \in 1..Len(tasks) :
                            /\ \A u \in 1..Len(tasks) :
                                  (tasks[u].fn = "_make_other_request"
                                   /\ tasks[u].requests[1].original_request_index = i) => u = t
                            /\ tasks[t].fn = "_make_other_request"
                            /\ tasks[t].requests[1].original_request_index = i
                            /\ Len(tasks[t].calls) = 1
                            /\ tasks[t].calls[1].fn = "get_async"
                            /\ tasks[t].calls[1].path = key_ranges[i].key

\* Two bounded requests on one key were read with one backend call.
C18_Witness ==
    /\ op = "get_partial_values"
    /\ args.key_ranges = <<[key |-> KeyAB, byte_range |-> RangeByteRequest(2, 3)],
                           [key |-> KeyAB, byte_range |-> RangeByteRequest(0, 2)]>>
    /\ ret.kind = "list"
    /\ Cardinality(CallsIssued) = 1

\* C19: a byte range of no recognized class, at any position of the input,
\* makes the call fail with ValueError before any coroutine is created and any
\* backend call is made.
C19_UnsupportedRangeFailsFirst ==
    (op = "get_partial_values"
     /\ \E i \in 1..Len(args.key_ranges) : args.key_ranges[i].byte_range = Unrecognized) =>
        /\ ret = Raise("ValueError")
        /\ tasks = <<>>
        /\ slots = <<>>

\* A batch whose second range is of no recognized class was refused.
C19_Witness ==
    /\ op = "get_partial_values"
    /\ args.key_ranges = <<[key |-> KeyAB, byte_range |-> RangeByteRequest(0, 2)],
                           [key |-> KeyAB, byte_range |-> Unrecognized]>>
    /\ ret = Raise("ValueError")

\* C20: whatever the order in which the tasks start and complete, a list the
\* call returns is the list of the buffers a get per request returns, and
\* buffers is filled and returned only when every task has completed.
C20_OrderIndependent ==
    op = "get_partial_values" =>
        /\ ret.kind = "list" => ret = BufferList(SequentialGets(objects, args.key_ranges))
        /\ (ret.kind = "list" \/ \E i \in 1..Len(slots) : slots[i] # None) =>
              \A t \in 1..Len(tasks) : tasks[t].status = "done"

\* A batch of two tasks on different keys returned its list.
C20_Witness ==
    /\ op = "get_partial_values"
    /\ args.key_ranges = <<[key |-> KeyAb, byte_range |-> SuffixByteRequest(2)],
                           [key |-> KeyAB, byte_range |-> RangeByteRequest(0, 2)]>>
    /\ Len(tasks) = 2
    /\ ret = BufferList(<<Buffer(<<40, 50>>), Buffer(<<10, 20>>)>>)

\* The responses the tasks have returned: <<t, j>> is response j of task t,
\* which the loops over the gathered results write to buffers once
Responses ==
    UNION {{<<t, j>> : j \in 1..Len(tasks[t].result.items)} :
              t \in {u \in 1..Len(tasks) : tasks[u].result.kind = "responses"}}

IndexOf(w) == tasks[w[1]].result.items[w[2]].original_request_index

\* The indices a task was created for
IndicesOf(t) ==
    {tasks[t].requests[j].original_request_index : j \in 1..Len(tasks[t].requests)}

\* C21: in a call with recognized ranges the indices of different tasks are
\* pairwise disjoint, every position of the input belongs to exactly one task
\* and occurs once in it, the responses of the tasks carry indices of the
\* input only, and no two responses are written to the same index of buffers.
C21_WriteOncePerIndex ==
    (op = "get_partial_values" /\ ret # Raise("ValueError")) =>
        /\ \A t, u \in 1..Len(tasks) : t # u => IndicesOf(t) \cap IndicesOf(u) = {}
        /\ \A t \in 1..Len(tasks) : Cardinality(IndicesOf(t)) = Len(tasks[t].requests)
        /\ UNION {IndicesOf(t) : t \in 1..Len(tasks)} = 1..Len(args.key_ranges)
        /\ \A w \in Responses : IndexOf(w) \in IndicesOf(w[1])
        /\ \A w, x \in Responses : w # x => IndexOf(w) # IndexOf(x)

\* Two bounded requests on one key were answered by one task and written to
\* the two indices of buffers.
C21_Witness ==
    /\ op = "get_partial_values"
    /\ args.key_ranges = <<[key |-> KeyAB, byte_range |-> RangeByteRequest(0, 2)],
                           [key |-> KeyAB, byte_range |-> RangeByteRequest(2, 3)]>>
    /\ Len(tasks) = 1
    /\ {IndexOf(w) : w \in Responses} = {1, 2}
    /\ slots = <<Buffer(<<10, 20>>), Buffer(<<30>>)>>

\* A task has ended with a backend error that is no not-found signal
FailedOther(ts, t) ==
    /\ ts[t].result.kind = "raise"
    /\ ts[t].result.exc \notin NotFoundSignals

\* C22: when a task fails with a backend error that is no not-found signal,
\* the call raises that error, and it returns no list.
C22_ErrorPropagates ==
    op = "get_partial_values" =>
        \A t \in 1..Len(tasks) : FailedOther(tasks, t) => ret = tasks[t].result

\* C22 as the code has it: the call raises, unmodified, the error of the
\* first task to fail, whatever that error is, and keeps it; a later failure
\* of another task is raised nowhere; a call with a failed task never returns
\* a list.
C22_FirstErrorPropagates ==
    [][/\ \A t \in 1..Len(tasks) :
             (tasks[t].result = Pending /\ tasks'[t].result.kind = "raise") =>
                 IF ret = Awaiting THEN ret' = tasks'[t].result ELSE ret' = ret
       /\ ret.kind = "raise" => ret' = ret
       /\ (\E t \in 1..Len(tasks') : tasks'[t].result.kind = "raise") => ret'.kind = "raise"]_vars

\* The second task of a batch failed with GenericError while the first had
\* its response, and the call raised GenericError.
C22_Witness ==
    /\ op = "get_partial_values"
    /\ Len(tasks) = 2
    /\ tasks[1].result.kind = "responses"
    /\ tasks[2].result = Raise("GenericError")
    /\ ret = Raise("GenericError")

\* C23: once the call is cancelled every task that has not completed is
\* cancelled or being cancelled, none of them completes or makes a backend
\* call afterwards, the call ends with CancelledError only when every task has
\* ended, no list is returned and the backend contents do not change.
C23_CancelReachesTasks ==
    [][/\ ret \in {Cancelling, Raise("CancelledError")} =>
             /\ objects' = objects
             /\ ret' \in {Cancelling, Raise("CancelledError")}
             /\ \A t \in 1..Len(tasks) :
                   /\ tasks[t].status \in {"done", "cancelling", "cancelled"}
                   /\ tasks'[t].status = "done" => tasks[t].status = "done"
                   /\ tasks'[t].calls = tasks[t].calls
       /\ ret' = Raise("CancelledError") =>
             \A t \in 1..Len(tasks') : tasks'[t].status \in {"done", "cancelled"}]_vars

\* A call was cancelled with one task completed and one waiting for the
\* backend, and ended with CancelledError.
C23_Witness ==
    /\ op = "get_partial_values"
    /\ ret = Raise("CancelledError")
    /\ Len(tasks) = 2
    /\ tasks[1].status = "done"
    /\ tasks[2].status = "cancelled"
    /\ Len(tasks[2].calls) = 1

(***************************************************************************)
(* exists and the root listing, checked under Spec.                        *)
(***************************************************************************)
\* C24: exists returns true exactly when get without a range returns a buffer
\* under the same answer of the backend, and returns false for every signal
\* that get turns into None: FileNotFoundError, IsADirectoryError and
\* NotADirectoryError.
C24_ExistsAgreesWithGet ==
    op = "exists" =>
        /\ ret = Bool(TRUE) <=> get(objects, args.key, Full, args.signal).kind = "Buffer"
        /\ get(objects, args.key, Full, args.signal) = None => ret = Bool(FALSE)

\* C25: list_dir with the empty prefix yields exactly the stored keys that
\* hold no "/", each in full.
C25_ListDirRoot ==
    (op = "list_dir" /\ args.prefix = <<>>) =>
        ret = Yielded({k \in DOMAIN objects : \A j \in 1..Len(k) : k[j] # "/"})

(***************************************************************************)
(* RuntimeConfiguration (config.py)                                        *)
(***************************************************************************)
\* The number of event loops a caller can tell apart
MaxLoops == 8

PyNone == [type |-> "NoneType"]
EventLoop(i) == [type |-> "AbstractEventLoop", id |-> i]

\* parse_asyncio_loop
parse_asyncio_loop(data) ==
    IF data.type = "NoneType" \/ data.type = "AbstractEventLoop"
    THEN Value(data)
    ELSE Raise("TypeError")

\* RuntimeConfiguration.__init__: the attributes of the instance.  The field
\* asyncio_loop keeps the default of the class, None; the parsed argument is
\* stored under the name asyncio_loop_parsed.
RuntimeConfiguration(asyncio_loop) ==
    LET asyncio_loop_parsed == parse_asyncio_loop(asyncio_loop)
    IN  IF asyncio_loop_parsed.kind = "raise" THEN asyncio_loop_parsed
        ELSE [kind |-> "RuntimeConfiguration",
              asyncio_loop |-> PyNone,
              asyncio_loop_parsed |-> asyncio_loop_parsed.value]

\* Reading an attribute of the instance
getattr(self, name) ==
    CASE name = "asyncio_loop" -> Value(self.asyncio_loop)
      [] name = "asyncio_loop_parsed" -> Value(self.asyncio_loop_parsed)
      [] OTHER -> Raise("AttributeError")

\* Assigning to an attribute of an instance of a frozen dataclass
setattr(self, name, value) == Raise("FrozenInstanceError")

AttributeNames == {"asyncio_loop", "asyncio_loop_parsed"}

LoopArguments ==
    {PyNone, PyStr} \cup {EventLoop(i) : i \in 1..MaxLoops} \cup {PyInt(n) : n \in 0..MaxLoops}

\* A caller holding the argument of RuntimeConfiguration(asyncio_loop=...)
InitConfig ==
    /\ objects = EmptyStore
    /\ read_only = FALSE
    /\ op = "caller"
    /\ args \in {[asyncio_loop |-> a] : a \in LoopArguments}
    /\ ret = None
    /\ tasks = <<>>
    /\ slots = <<>>

NewRuntimeConfiguration ==
    /\ op = "caller"
    /\ op' = "RuntimeConfiguration"
    /\ ret' = RuntimeConfiguration(args.asyncio_loop)
    /\ UNCHANGED <<objects, read_only, args, tasks, slots>>

GetAttr ==
    /\ op = "RuntimeConfiguration"
    /\ ret.kind = "RuntimeConfiguration"
    /\ \E name \in AttributeNames :
           /\ op' = "getattr"
           /\ args' = [self |-> ret, name |-> name, given |-> args.asyncio_loop]
           /\ ret' = getattr(ret, name)
    /\ UNCHANGED <<objects, read_only, tasks, slots>>

SetAttr ==
    /\ op = "RuntimeConfiguration"
    /\ ret.kind = "RuntimeConfiguration"
    /\ \E value \in {PyNone} \cup {EventLoop(i) : i \in 1..MaxLoops} :
           /\ op' = "setattr"
           /\ args' = [self |-> ret, name |-> "asyncio_loop", value |-> value]
           /\ ret' = setattr(ret, "asyncio_loop", value)
    /\ UNCHANGED <<objects, read_only, tasks, slots>>

NextConfig ==
    \/ NewRuntimeConfiguration
    \/ GetAttr
    \/ SetAttr

SpecConfig == InitConfig /\ [][NextConfig]_vars

\* C26: RuntimeConfiguration(asyncio_loop=a) fails with TypeError exactly when
\* a is neither None nor an event loop, and the asyncio_loop field of an
\* instance constructed with an event loop equals that loop.
C26_RetainsLoop ==
    /\ op = "RuntimeConfiguration" =>
          (ret = Raise("TypeError")
              <=> args.asyncio_loop.type \notin {"NoneType", "AbstractEventLoop"})
    /\ (op = "getattr" /\ args.name = "asyncio_loop"
        /\ args.given.type = "AbstractEventLoop") => ret = Value(args.given)

====
